---------------------------- MODULE Spec2Model ----------------------------
(***************************************************************************)
(* Model of dashboard_english.py: a Streamlit script that is re-executed   *)
(* from top to bottom on every user interaction.  One script run reads the *)
(* sidebar number input, scales three baseline equities by                 *)
(* initial_investment / base_capital in Python floats (IEEE-754 binary64), *)
(* renders three KPIs, seven image panels in three tabs and one table.     *)
(*                                                                         *)
(* Runs are synchronous: the user acts on the page of a finished run.      *)
(* Texts are kept without their emoji, and a multi-sentence text is kept   *)
(* by its first sentence or heading.                                       *)
(***************************************************************************)
EXTENDS Integers, Sequences, FiniteSets, TLC

(***************************************************************************)
(* Python floats.  A positive binary64 number is [man, exp]: man is the    *)
(* 53-bit significand, 2^52 <= man < 2^53, and the value is man * 2^exp.   *)
(* The script computes no negative, subnormal or infinite value.  A natural *)
(* number wider than a machine word is a sequence of limbs in base         *)
(* 2^LimbBits, most significant first, with no leading zero limb.          *)
(***************************************************************************)
MantissaBits == 53
LimbBits == 13
Base == 2 ^ LimbBits

RECURSIVE NatLimbs(_)
NatLimbs(n) ==
    IF n = 0 THEN << >> ELSE Append(NatLimbs(n \div Base), n % Base)

RECURSIVE LimbsNat(_)
LimbsNat(x) ==
    IF x = << >> THEN 0
    ELSE Base * LimbsNat(SubSeq(x, 1, Len(x) - 1)) + x[Len(x)]

RECURSIVE StripZeros(_)
StripZeros(x) ==
    IF x # << >> /\ x[1] = 0 THEN StripZeros(Tail(x)) ELSE x

RECURSIVE BitLen(_)
BitLen(n) == IF n = 0 THEN 0 ELSE 1 + BitLen(n \div 2)

BitLength(x) ==
    IF x = << >> THEN 0 ELSE (Len(x) - 1) * LimbBits + BitLen(x[1])

\* x * k + carry for small k and carry: schoolbook, from the low limb up.
RECURSIVE MulAddSmall(_, _, _)
MulAddSmall(x, k, carry) ==
    IF x = << >> THEN NatLimbs(carry)
    ELSE LET n == Len(x)
             t == x[n] * k + carry
         IN  Append(MulAddSmall(SubSeq(x, 1, n - 1), k, t \div Base), t % Base)

MulSmall(x, k) == StripZeros(MulAddSmall(x, k, 0))

AddSmall(x, a) == StripZeros(MulAddSmall(x, 1, a))

\* Long division of x by a small d, from the high limb down.
RECURSIVE DivSmallFrom(_, _, _, _, _)
DivSmallFrom(x, d, i, rem, acc) ==
    IF i > Len(x) THEN [quot |-> StripZeros(acc), rem |-> rem]
    ELSE LET t == rem * Base + x[i]
         IN  DivSmallFrom(x, d, i + 1, t % d, Append(acc, t \div d))

DivSmall(x, d) == DivSmallFrom(x, d, 1, 0, << >>)

\* x * 2^s.
ShiftLeft(x, s) ==
    MulSmall(x, 2 ^ (s % LimbBits)) \o [i \in 1..(s \div LimbBits) |-> 0]

\* floor(x / 2^s), and whether a nonzero part was shifted out.
ShiftRight(x, s) ==
    LET n    == s \div LimbBits
        keep == IF n >= Len(x) THEN << >> ELSE SubSeq(x, 1, Len(x) - n)
        lost == \E i \in 1..Len(x) : i > Len(x) - n /\ x[i] # 0
        q    == DivSmall(keep, 2 ^ (s % LimbBits))
    IN  [quot |-> q.quot, sticky |-> lost \/ q.rem # 0]

\* floor(x / 2^s) rounded to nearest, ties to even, where `sticky` says that
\* a nonzero residue lies below the last bit of x.
RoundShift(x, sticky, s) ==
    LET a     == ShiftRight(x, s - 1)
        h     == DivSmall(a.quot, 2)
        odd   == h.quot # << >> /\ h.quot[Len(h.quot)] % 2 = 1
        up    == h.rem = 1 /\ (sticky \/ a.sticky \/ odd)
    IN  IF up THEN AddSmall(h.quot, 1) ELSE h.quot

\* Round-to-nearest, ties-to-even, of (x + residue) * 2^exp to binary64.
RoundNearestEven(x, sticky, exp) ==
    LET n == BitLength(x)
    IN  IF n <= MantissaBits
        THEN [man |-> ShiftLeft(x, MantissaBits - n),
              exp |-> exp - (MantissaBits - n)]
        ELSE LET m == RoundShift(x, sticky, n - MantissaBits)
                 e == exp + (n - MantissaBits)
             IN  IF BitLength(m) > MantissaBits
                 THEN [man |-> DivSmall(m, 2).quot, exp |-> e + 1]
                 ELSE [man |-> m, exp |-> e]

\* The binary64 nearest to x/d for a positive x and a small positive d
\* (d < 2^23): Python's true division of two ints, correctly rounded.  The
\* quotient of x * 2^DivShift by d has more than 55 bits.
DivShift == 6 * LimbBits

LimbsTrueDiv(x, d) ==
    LET q == DivSmall(ShiftLeft(x, DivShift), d)
    IN  RoundNearestEven(q.quot, q.rem # 0, -DivShift)

\* a / d for two positive ints.
IntTrueDiv(a, d) == LimbsTrueDiv(NatLimbs(a), d)

\* float(n) for a positive int n.
FloatOfInt(n) == RoundNearestEven(NatLimbs(n), FALSE, 0)

\* k * x for an int k and a float x: k converts exactly (k < 2^53) and the
\* product is rounded once.
IntMulFloat(k, x) == RoundNearestEven(MulSmall(x.man, k), FALSE, x.exp)

RECURSIVE LimbsLess(_, _)
LimbsLess(a, b) ==
    \/ Len(a) < Len(b)
    \/ /\ Len(a) = Len(b)
       /\ a # << >>
       /\ \/ a[1] < b[1]
          \/ a[1] = b[1] /\ LimbsLess(Tail(a), Tail(b))

\* 0.0, the only float here that is not positive and normal.
FloatZero == [man |-> << >>, exp |-> 0]

\* x < y.
FloatLess(x, y) ==
    IF x = FloatZero THEN y # FloatZero
    ELSE /\ y # FloatZero
         /\ \/ x.exp < y.exp
            \/ x.exp = y.exp /\ LimbsLess(x.man, y.man)


(***************************************************************************)
(* String formatting: f"{v:,.0f}" rounds v to the nearest integer, ties to *)
(* even, on the exact binary value, and groups the digits in threes.       *)
(***************************************************************************)
DigitChar(d) == <<"0", "1", "2", "3", "4", "5", "6", "7", "8", "9">>[d + 1]

RECURSIVE Digits(_)
Digits(n) ==
    IF n < 10 THEN DigitChar(n) ELSE Digits(n \div 10) \o DigitChar(n % 10)

Pad3(n) ==
    DigitChar(n \div 100) \o DigitChar((n \div 10) % 10) \o DigitChar(n % 10)

RECURSIVE Grouped(_)
Grouped(n) ==
    IF n < 1000 THEN Digits(n) ELSE Grouped(n \div 1000) \o "," \o Pad3(n % 1000)

\* round(x) for a float below 2^31, as the .0f conversion computes it.
FloatRound0(x) ==
    IF x.exp >= 0 THEN LimbsNat(ShiftLeft(x.man, x.exp))
    ELSE LimbsNat(RoundShift(x.man, FALSE, -x.exp))

\* f"{v:,.0f}" of a float and of an int.
FormatFloat(x) == Grouped(FloatRound0(x))
FormatInt(n) == Grouped(n)


(***************************************************************************)
(* The script's literals.                                                  *)
(***************************************************************************)
min_value == 100
max_value == 1000000
value == 10000
step == 1000
base_capital == 10000
hodl_base == 46009
dca_base == 31328
quant_base == 18156

GITHUB_USER == "lucky11chances"
GITHUB_REPO == "bitcoin-investment-strategies-draft"
BRANCH == "main"
BASE_URL ==
    "https://raw.githubusercontent.com/" \o GITHUB_USER \o "/" \o GITHUB_REPO
        \o "/" \o BRANCH \o "/visualization"

\* Mutant of ResolveUrl: the separator is left out of the f-string.
ResolveUrlNoSeparator(filename) == BASE_URL \o filename

\* url = f"{BASE_URL}/{filename}"
ResolveUrl(filename) == BASE_URL \o "/" \o filename

\* The seven render_chart calls, in script order.  Icons are named, and an
\* explanation is given by its heading line.
Panels ==
    << [tab |-> "tab1", filename |-> "portfolio_value_training_animated.gif",
        title |-> "Time Machine: Training Period (2010-2020)",
        explanation |-> "**The Race is On:**", icon |-> "clapper"],
       [tab |-> "tab1", filename |-> "portfolio_value_test_animated.gif",
        title |-> "Time Machine: Test Period (2023-2024)",
        explanation |-> "**The Reality Check:**", icon |-> "clapper"],
       [tab |-> "tab2", filename |-> "portfolio_value_training.png",
        title |-> "Full History: Training Set",
        explanation |-> "**10 Years of Data:**", icon |-> "chart-up"],
       [tab |-> "tab2", filename |-> "portfolio_value_test.png",
        title |-> "Recent Performance: Test Set (The 'Crash')",
        explanation |-> "**Where the Quant Strategy Failed:**", icon |-> "chart-down"],
       [tab |-> "tab3", filename |-> "factor_weights_en.png",
        title |-> "Feature Importance: What matters?",
        explanation |-> "**The Decision Makers:**", icon |-> "brain"],
       [tab |-> "tab3", filename |-> "position_changes.png",
        title |-> "Market Timing (Position Changes)",
        explanation |-> "**Buy or Sell?**", icon |-> "traffic-light"],
       [tab |-> "tab3", filename |-> "cumulative_trades.png",
        title |-> "Trading Frequency",
        explanation |-> "**Is the Robot Hyperactive?**", icon |-> "money-wings"] >>

\* The statements of the script, top to bottom; a chart step is one
\* render_chart call.
Script ==
    << [op |-> "sidebar", arg |-> 0], [op |-> "scale", arg |-> 0],
       [op |-> "kpis", arg |-> 0], [op |-> "tabs", arg |-> 0],
       [op |-> "chart", arg |-> 1], [op |-> "chart", arg |-> 2],
       [op |-> "chart", arg |-> 3], [op |-> "chart", arg |-> 4],
       [op |-> "table", arg |-> 0], [op |-> "tab3", arg |-> 0],
       [op |-> "chart", arg |-> 5], [op |-> "chart", arg |-> 6],
       [op |-> "chart", arg |-> 7] >>

(***************************************************************************)
(* Bounds of the exploration: the number of script runs of one session and *)
(* the values a user types into the number input.                          *)
(***************************************************************************)
MaxRuns == 3
TypedValues == {0, 50, min_value, max_value + 1}

(***************************************************************************)
(* State.  widget_value is the number input's value kept by the session;   *)
(* the globals of the script's namespace are unbound when a run starts;    *)
(* page is the list of elements the current run has emitted; ip is the     *)
(* next statement of Script (0 when no run is in progress).  fetch[k] says *)
(* whether the image of the k-th panel of this run could be loaded, and    *)
(* history records, per finished run, the input and what was computed.     *)
(* image_raises is a fact about the installed Streamlit that the script    *)
(* does not decide: whether st.image, given a URL, raises when the         *)
(* resource cannot be loaded.  first_layout records the page of the        *)
(* session's first run with its input-dependent texts blanked.             *)
(***************************************************************************)
VARIABLES widget_value, initial_investment, multiplier, hodl_val, dca_val,
          quant_val, table_data, page, ip, fetch, history, image_raises,
          first_layout

vars == << widget_value, initial_investment, multiplier, hodl_val, dca_val,
           quant_val, table_data, page, ip, fetch, history, image_raises,
           first_layout >>

\* A name of the namespace that no statement has assigned yet.
UnboundInt == -1
UnboundFloat == [man |-> << >>, exp |-> UnboundInt]
UnboundTable ==
    [strategy_name |-> << >>, final_equity |-> << >>, total_return |-> << >>,
     risk_profile |-> << >>, activity_level |-> << >>]

Bound(x) == x # UnboundFloat

El(place, kind, text, val, note) ==
    [place |-> place, kind |-> kind, text |-> text, val |-> val, note |-> note]

Init ==
    /\ widget_value = value
    /\ initial_investment = UnboundInt
    /\ multiplier = UnboundFloat
    /\ hodl_val = UnboundFloat
    /\ dca_val = UnboundFloat
    /\ quant_val = UnboundFloat
    /\ table_data = UnboundTable
    /\ page = << >>
    /\ ip = 1
    /\ fetch = << >>
    /\ history = << >>
    /\ image_raises \in BOOLEAN
    /\ first_layout = << >>

Running(op) == ip \in 1..Len(Script) /\ Script[ip].op = op

(***************************************************************************)
(* The script.                                                             *)
(***************************************************************************)
\* with st.sidebar: ... st.number_input(...) returns the widget's value.
Sidebar ==
    /\ Running("sidebar")
    /\ initial_investment' = widget_value
    /\ page' = page \o
         << El("sidebar", "header", "Investment Simulator", "", ""),
            El("sidebar", "markdown",
               "Adjust the capital to see how much you would have made during the test period (2023-2024).",
               "", ""),
            El("sidebar", "number_input", "Initial Capital ($)", "", ""),
            El("sidebar", "divider", "", "", ""),
            El("sidebar", "success", "Connected to GitHub", "", "") >>
    /\ ip' = ip + 1
    /\ UNCHANGED << widget_value, multiplier, hodl_val, dca_val, quant_val,
                    table_data, fetch, history, image_raises, first_layout >>

\* Mutant of Multiplier: floor division, initial_investment // base_capital.
MultiplierFloorDiv(capital) ==
    IF capital \div base_capital = 0 THEN FloatZero
    ELSE FloatOfInt(capital \div base_capital)

\* multiplier = initial_investment / base_capital
Multiplier(capital) ==
    IF capital = 0 THEN FloatZero ELSE IntTrueDiv(capital, base_capital)

\* Mutant of Scaled: every strategy scales the first baseline.
ScaledOneBaseline(base, m) ==
    IF m = FloatZero THEN FloatZero ELSE IntMulFloat(hodl_base, m)

\* 46009 * multiplier, 31328 * multiplier, 18156 * multiplier
Scaled(base, m) == IF m = FloatZero THEN FloatZero ELSE IntMulFloat(base, m)

\* Mutant of Scale: the input of the previous run, kept in the session, is
\* scaled instead of the current one.
ScaleStale ==
    LET c == IF history = << >> THEN initial_investment
             ELSE history[Len(history)].capital
    IN  /\ Running("scale")
        /\ multiplier' = Multiplier(c)
        /\ hodl_val' = Scaled(hodl_base, multiplier')
        /\ dca_val' = Scaled(dca_base, multiplier')
        /\ quant_val' = Scaled(quant_base, multiplier')
        /\ ip' = ip + 1
        /\ UNCHANGED << widget_value, initial_investment, table_data, page,
                        fetch, history, image_raises, first_layout >>

Scale ==
    /\ Running("scale")
    /\ multiplier' = Multiplier(initial_investment)
    /\ hodl_val' = Scaled(hodl_base, multiplier')
    /\ dca_val' = Scaled(dca_base, multiplier')
    /\ quant_val' = Scaled(quant_base, multiplier')
    /\ ip' = ip + 1
    /\ UNCHANGED << widget_value, initial_investment, table_data, page, fetch,
                    history, image_raises, first_layout >>

\* f"${v:,.0f}"
Dollars(v) == "$" \o (IF v = FloatZero THEN "0" ELSE FormatFloat(v))

Kpis ==
    /\ Running("kpis")
    /\ page' = page \o
         << El("main", "title", "Bitcoin Strategy Analysis Report (2010-2024)", "", ""),
            El("main", "markdown", "### Performance Snapshot (Test Set: 2023-2024)", "", ""),
            El("main", "caption",
               "Showing results for an initial investment of **$"
                   \o FormatInt(initial_investment) \o "**", "", ""),
            El("kpi1", "markdown", "### HODL (Buy & Hold)", "", ""),
            El("kpi1", "metric", "Final Equity", Dollars(hodl_val), "Highest Return"),
            El("kpi1", "info", "**Meaning**: Buy once, hold forever.", "", ""),
            El("kpi2", "markdown", "### DCA (Dollar-Cost Avg)", "", ""),
            El("kpi2", "metric", "Final Equity", Dollars(dca_val), "Sharpe Ratio 3.04"),
            El("kpi2", "success", "**Meaning**: Fixed monthly investment.", "", ""),
            El("kpi3", "markdown", "### Quant (Active Trading)", "", ""),
            El("kpi3", "metric", "Final Equity", Dollars(quant_val), "-60% vs HODL"),
            El("kpi3", "warning", "**Meaning**: Active buying/selling based on technical signals.", "", ""),
            El("main", "divider", "", "", "") >>
    /\ ip' = ip + 1
    /\ UNCHANGED << widget_value, initial_investment, multiplier, hodl_val,
                    dca_val, quant_val, table_data, fetch, history, image_raises, first_layout >>

\* tab1, tab2, tab3 = st.tabs([...]); with tab1: st.warning(...)
Tabs ==
    /\ Running("tabs")
    /\ page' = page \o
         << El("main", "tabs", "Time-Lapse Animations", "Performance Overview",
               "Strategy Deep Dive"),
            El("tab1", "warning", "Animations might take a few seconds to load...", "", "") >>
    /\ ip' = ip + 1
    /\ UNCHANGED << widget_value, initial_investment, multiplier, hodl_val,
                    dca_val, quant_val, table_data, fetch, history, image_raises, first_layout >>


\* st.image(url) inside try/except.  The script hands st.image a URL
\* string and never fetches the resource itself (requests is imported and
\* unused).  When the resource cannot be loaded, either st.image raises
\* ("raised"), or it has passed the URL on to the browser and returned, and
\* the image element on the page shows no picture ("broken").
ImageOutcome(status) ==
    IF status = "ok" THEN "shown"
    ELSE IF image_raises THEN "raised" ELSE "broken"

\* The elements of one panel, given what stands in the picture's place.
PanelElements(p, title, picture) ==
    << El(p.tab, "subheader", p.icon \o " " \o title, "", ""),
       picture,
       El(p.tab, "markdown", "**How to read this:**", "", ""),
       El(p.tab, "info", p.explanation, "", ""),
       El(p.tab, "divider", "", "", "") >>

ImageElement(p) == El(p.tab, "image", ResolveUrl(p.filename), "", "")
ErrorElement(p) == El(p.tab, "error", "Failed to load image: " \o p.filename, "", "")

\* Mutant of RenderChart: no try/except, so an exception of st.image ends
\* the script run where it is raised.
RenderChartNoTry(k) ==
    LET p == Panels[k]
    IN  /\ Running("chart")
        /\ Script[ip].arg = k
        /\ \E status \in {"ok", "unreachable"} :
               /\ IF ImageOutcome(status) = "raised"
                  THEN /\ page' = page \o
                            << El(p.tab, "subheader", p.icon \o " " \o p.title, "", ""),
                               El(p.tab, "exception", "st.image", "", "") >>
                       /\ ip' = Len(Script) + 1
                  ELSE /\ page' = page \o PanelElements(p, p.title, ImageElement(p))
                       /\ ip' = ip + 1
               /\ fetch' = Append(fetch, status)
        /\ UNCHANGED << widget_value, initial_investment, multiplier, hodl_val,
                        dca_val, quant_val, table_data, history, image_raises,
                        first_layout >>

\* Mutant of RenderChart: the panel's title quotes the simulated capital.
RenderChartCapitalTitle(k) ==
    LET p == Panels[k]
    IN  /\ Running("chart")
        /\ Script[ip].arg = k
        /\ \E status \in {"ok", "unreachable"} :
               /\ page' = page \o
                    PanelElements(p, p.title \o " ($" \o FormatInt(initial_investment) \o ")",
                                  IF ImageOutcome(status) = "raised"
                                  THEN ErrorElement(p) ELSE ImageElement(p))
               /\ fetch' = Append(fetch, status)
        /\ ip' = ip + 1
        /\ UNCHANGED << widget_value, initial_investment, multiplier, hodl_val,
                        dca_val, quant_val, table_data, history, image_raises,
                        first_layout >>

\* def render_chart(filename, title, explanation, icon), for the k-th call.
RenderChart(k) ==
    LET p == Panels[k]
    IN  /\ Running("chart")
        /\ Script[ip].arg = k
        /\ \E status \in {"ok", "unreachable"} :
               /\ page' = page \o
                    PanelElements(p, p.title,
                                  IF ImageOutcome(status) = "raised"
                                  THEN ErrorElement(p) ELSE ImageElement(p))
               /\ fetch' = Append(fetch, status)
        /\ ip' = ip + 1
        /\ UNCHANGED << widget_value, initial_investment, multiplier, hodl_val,
                        dca_val, quant_val, table_data, history, image_raises, first_layout >>

\* Mutant of TableData: the equity column shows the unscaled baselines.
TableDataUnscaled ==
    [strategy_name |-> <<"HODL (Buy & Hold)", "DCA (Monthly Buy)", "Quant (Active Trading)">>,
     final_equity |-> <<"$" \o FormatInt(hodl_base), "$" \o FormatInt(dca_base),
                        "$" \o FormatInt(quant_base)>>,
     total_return |-> <<"-", "-31.9%", "-60.5%">>,
     risk_profile |-> <<"High Volatility", "Low Volatility (Sharpe 3.04)", "High Risk (Overfitting)">>,
     activity_level |-> <<"Passive (1 Trade)", "Passive (Monthly)", "Active (High Frequency)">>]

\* table_data = {...}; st.table(pd.DataFrame(table_data))
TableData ==
    [strategy_name |-> <<"HODL (Buy & Hold)", "DCA (Monthly Buy)", "Quant (Active Trading)">>,
     final_equity |-> <<Dollars(hodl_val), Dollars(dca_val), Dollars(quant_val)>>,
     total_return |-> <<"-", "-31.9%", "-60.5%">>,
     risk_profile |-> <<"High Volatility", "Low Volatility (Sharpe 3.04)", "High Risk (Overfitting)">>,
     activity_level |-> <<"Passive (1 Trade)", "Passive (Monthly)", "Active (High Frequency)">>]

Table ==
    /\ Running("table")
    /\ table_data' = TableData
    /\ page' = page \o
         << El("tab2", "subheader", "Strategy Comparison Matrix", "", ""),
            El("tab2", "caption",
               "Calculated based on your $" \o FormatInt(initial_investment)
                   \o " simulated investment.", "", ""),
            El("tab2", "table", "table_data", "", ""),
            El("tab2", "caption",
               "**Note:** 'Total Return vs HODL' shows the performance gap compared to the simple Buy & Hold strategy.",
               "", "") >>
    /\ ip' = ip + 1
    /\ UNCHANGED << widget_value, initial_investment, multiplier, hodl_val,
                    dca_val, quant_val, fetch, history, image_raises, first_layout >>

\* with tab3: st.header(...)
Tab3 ==
    /\ Running("tab3")
    /\ page' = page \o << El("tab3", "header", "Inside the Robot's Brain", "", "") >>
    /\ ip' = ip + 1
    /\ UNCHANGED << widget_value, initial_investment, multiplier, hodl_val,
                    dca_val, quant_val, table_data, fetch, history, image_raises, first_layout >>

\* A page element without what the claims allow to vary with the input
\* (a caption's text, a metric's value) or with the network (picture or
\* error message).
Blank(e) ==
    IF e.kind = "caption" THEN [e EXCEPT !.text = ""]
    ELSE IF e.kind = "metric" THEN [e EXCEPT !.val = ""]
    ELSE IF e.kind \in {"image", "error"} THEN [e EXCEPT !.kind = "picture", !.text = ""]
    ELSE e

Layout(pg) == [i \in 1..Len(pg) |-> Blank(pg[i])]

\* The last statement has run: the run is over and the page stays on screen.
ScriptEnd ==
    /\ ip = Len(Script) + 1
    /\ first_layout' = IF history = << >> THEN Layout(page) ELSE first_layout
    /\ history' = Append(history,
         [capital |-> initial_investment, hodl |-> hodl_val, dca |-> dca_val,
          quant |-> quant_val, final_equity |-> table_data.final_equity])
    /\ ip' = 0
    /\ UNCHANGED << widget_value, initial_investment, multiplier, hodl_val,
                    dca_val, quant_val, table_data, page, fetch, image_raises >>

(***************************************************************************)
(* The user.  Any change of the number input, and a manual rerun, starts   *)
(* the script again from its first statement in a fresh namespace.         *)
(***************************************************************************)
Idle == ip = 0 /\ Len(history) < MaxRuns

StartRun(v) ==
    /\ widget_value' = v
    /\ initial_investment' = UnboundInt
    /\ multiplier' = UnboundFloat
    /\ hodl_val' = UnboundFloat
    /\ dca_val' = UnboundFloat
    /\ quant_val' = UnboundFloat
    /\ table_data' = UnboundTable
    /\ page' = << >>
    /\ fetch' = << >>
    /\ ip' = 1
    /\ UNCHANGED << history, image_raises, first_layout >>

\* Mutant of NumberInputCommit: the typed value is taken unchecked.
NumberInputCommitUnchecked(cur, v) == {v}

\* What the number input holds after the user commits a typed v: a value
\* of [min_value, max_value] is taken; any other is either refused (the
\* widget keeps its value) or clamped to the nearer end of the range.
NumberInputCommit(cur, v) ==
    IF min_value <= v /\ v <= max_value THEN {v}
    ELSE {cur, IF v < min_value THEN min_value ELSE max_value}

\* The + and - buttons move by `step` and refuse to leave the range.
StepUp ==
    /\ Idle
    /\ widget_value + step <= max_value
    /\ StartRun(widget_value + step)

StepDown ==
    /\ Idle
    /\ widget_value - step >= min_value
    /\ StartRun(widget_value - step)

TypeValue ==
    /\ Idle
    /\ \E v \in TypedValues :
         \E w \in NumberInputCommit(widget_value, v) :
           IF w = widget_value THEN UNCHANGED vars ELSE StartRun(w)

Rerun ==
    /\ Idle
    /\ StartRun(widget_value)

Next ==
    \/ Sidebar
    \/ Scale
    \/ Kpis
    \/ Tabs
    \/ \E k \in 1..Len(Panels) : RenderChart(k)
    \/ Table
    \/ Tab3
    \/ ScriptEnd
    \/ StepUp
    \/ StepDown
    \/ TypeValue
    \/ Rerun

Spec == Init /\ [][Next]_vars

(***************************************************************************)
(* Properties.                                                             *)
(***************************************************************************)
Computed == Bound(multiplier)
RunOver == ip = 0 \/ ip = Len(Script) + 1
InPage(e) == \E i \in 1..Len(page) : page[i] = e

\* The binary64 nearest to base * capital / 10000, computed exactly: what
\* the decimal value reads as a Python float.
Nearest(base, capital) ==
    LimbsTrueDiv(MulSmall(NatLimbs(capital), base), base_capital)

\* The next binary64 above x.
NextUp(x) ==
    LET m == AddSmall(x.man, 1)
    IN  IF BitLength(m) > MantissaBits
        THEN [man |-> DivSmall(m, 2).quot, exp |-> x.exp + 1]
        ELSE [man |-> m, exp |-> x.exp]

WithinOneUlp(x, y) ==
    LET a == x
        b == y
    IN  a = b \/ NextUp(a) = b \/ NextUp(b) = a

\* The float a decimal literal n/100 denotes, e.g. 460.09.
Cents(n) == LimbsTrueDiv(NatLimbs(n), 100)

\* C1 as stated: for every initial capital c in [100, 1000000] each scaled
\* equity equals its baseline times c/10000 (46009, 31328, 18156), so that
\* c = 100 gives 460.09 / 313.28 / 181.56.
C1_ScaledEqualsExact ==
    Computed =>
        /\ hodl_val = Nearest(hodl_base, initial_investment)
        /\ dca_val = Nearest(dca_base, initial_investment)
        /\ quant_val = Nearest(quant_base, initial_investment)

\* C1 amended: each scaled equity is the float product baseline *
\* (c / 10000), which is the float nearest to baseline * c / 10000 or one of
\* its two neighbours; c = 10000 gives exactly 46009 / 31328 / 18156,
\* c = 1000000 gives HODL = 4600900, and c = 100 gives
\* 460.09000000000003 / 313.28000000000003 / 181.56.
C1_ScaledWithinOneUlp ==
    Computed =>
        /\ WithinOneUlp(hodl_val, Nearest(hodl_base, initial_investment))
        /\ WithinOneUlp(dca_val, Nearest(dca_base, initial_investment))
        /\ WithinOneUlp(quant_val, Nearest(quant_base, initial_investment))
        /\ initial_investment = base_capital =>
              /\ hodl_val = FloatOfInt(46009)
              /\ dca_val = FloatOfInt(31328)
              /\ quant_val = FloatOfInt(18156)
        /\ initial_investment = 1000000 => hodl_val = FloatOfInt(4600900)
        /\ initial_investment = 100 =>
              /\ hodl_val = NextUp(Cents(46009))
              /\ dca_val = NextUp(Cents(31328))
              /\ quant_val = Cents(18156)

C1_Witness == Computed /\ initial_investment = 100

\* C2: in every render cycle the scaled equities are strictly ordered,
\* HODL > DCA > Quant.
C2_StrictOrder ==
    Computed => FloatLess(dca_val, hodl_val) /\ FloatLess(quant_val, dca_val)

C2_Witness == Computed /\ initial_investment = max_value /\ Len(history) > 0

\* C3: a run computes the same three scaled equities as every earlier run
\* of the session that had the same initial capital, whatever was rendered
\* in between.
C3_SameInputSameResult ==
    \A i \in 1..Len(history) :
        (Computed /\ history[i].capital = initial_investment) =>
            /\ history[i].hodl = hodl_val
            /\ history[i].dca = dca_val
            /\ history[i].quant = quant_val

C3_Witness ==
    /\ Computed
    /\ Len(history) = 2
    /\ history[1].capital = initial_investment
    /\ history[2].capital # initial_investment

\* C4: a panel whose image resource is unreachable shows the error
\* indicator "Failed to load image: <filename>" in place of the image, and
\* its explanation text.
C4_ErrorIndicatorShown ==
    \A k \in 1..Len(fetch) :
        fetch[k] = "unreachable" =>
            /\ InPage(ErrorElement(Panels[k]))
            /\ ~InPage(ImageElement(Panels[k]))
            /\ InPage(El(Panels[k].tab, "info", Panels[k].explanation, "", ""))


\* The value shown by the metric of one KPI column.
MetricValue(place) ==
    LET i == CHOOSE j \in 1..Len(page) :
                 page[j].kind = "metric" /\ page[j].place = place
    IN  page[i].val

PanelRendered(k) ==
    /\ InPage(El(Panels[k].tab, "subheader",
                 Panels[k].icon \o " " \o Panels[k].title, "", ""))
    /\ InPage(ImageElement(Panels[k])) \/ InPage(ErrorElement(Panels[k]))
    /\ InPage(El(Panels[k].tab, "info", Panels[k].explanation, "", ""))

\* C5: whichever panels' images cannot be loaded, every other panel is
\* rendered with its image, the run reaches the end of the page (three
\* tabs, seven panels, the table), and the equities in the table are those
\* of the KPIs and of every other run with the same input.
C5_FaultIsolation ==
    /\ \A k \in 1..Len(fetch) :
          fetch[k] = "ok" => InPage(ImageElement(Panels[k]))
    /\ RunOver =>
          /\ Len(fetch) = Len(Panels)
          /\ \A k \in 1..Len(Panels) : PanelRendered(k)
          /\ InPage(El("main", "tabs", "Time-Lapse Animations",
                       "Performance Overview", "Strategy Deep Dive"))
          /\ InPage(El("tab2", "table", "table_data", "", ""))
          /\ InPage(El("tab3", "header", "Inside the Robot's Brain", "", ""))
          /\ table_data.final_equity =
                <<MetricValue("kpi1"), MetricValue("kpi2"), MetricValue("kpi3")>>
          /\ \A i \in 1..Len(history) :
                history[i].capital = initial_investment =>
                    history[i].final_equity = table_data.final_equity

C5_Witness ==
    /\ ip = 0
    /\ fetch = <<"unreachable", "ok", "unreachable", "ok", "ok", "ok", "unreachable">>
    /\ InPage(ErrorElement(Panels[1]))
    /\ Len(history) = 2
    /\ history[1].capital = history[2].capital

\* C6: the table's "Total Return vs HODL" column is ("-", "-31.9%",
\* "-60.5%") in every run, while its "Final Equity ($)" column differs from
\* that of every run with another initial capital.
C6_FixedReturnColumn ==
    table_data # UnboundTable =>
        /\ table_data.total_return = <<"-", "-31.9%", "-60.5%">>
        /\ \A i \in 1..Len(history) :
              history[i].capital # initial_investment =>
                  history[i].final_equity # table_data.final_equity

C6_Witness ==
    /\ table_data # UnboundTable
    /\ Len(history) = 2
    /\ history[1].capital # initial_investment
    /\ history[2].capital # initial_investment

StartsWith(str, pre) == Len(str) >= Len(pre) /\ SubSeq(str, 1, Len(pre)) = pre
EndsWith(str, suf) ==
    Len(str) >= Len(suf) /\ SubSeq(str, Len(str) - Len(suf) + 1, Len(str)) = suf

\* C7: the URL of every image on the page is the base URL
\* https://raw.githubusercontent.com/<user>/<repo>/<branch>/visualization,
\* one "/", and the unmodified file name of the panel it stands in, with
\* no second slash on either side of the join; the base URL does not end
\* in "/".
C7_ResolvedUrl ==
    /\ ~EndsWith(BASE_URL, "/")
    /\ \A k \in 1..Len(fetch) :
          LET p == Panels[k]
              i == CHOOSE j \in 1..Len(page) :
                       /\ page[j].kind = "subheader"
                       /\ page[j].text = p.icon \o " " \o p.title
              e == page[i + 1]
          IN  e.kind = "image" =>
                /\ e.text = "https://raw.githubusercontent.com/" \o GITHUB_USER \o "/"
                               \o GITHUB_REPO \o "/" \o BRANCH \o "/visualization"
                               \o "/" \o p.filename
                /\ e.text = BASE_URL \o "/" \o p.filename
                /\ EndsWith(e.text, "/" \o p.filename)
                /\ ~StartsWith(p.filename, "/")
                /\ ~EndsWith(SubSeq(e.text, 1, Len(e.text) - Len(p.filename) - 1), "/")
                /\ StartsWith(e.text, "https://raw.githubusercontent.com/")

C7_Witness ==
    InPage(El("tab3", "image", BASE_URL \o "/factor_weights_en.png", "", ""))

\* C8: the initial capital that reaches the computation is within
\* [100, 1000000], it is 10000 in the first run, out-of-range input never
\* enters the widget, the multiplier is positive and every finished run has
\* computed its equities.
C8_CapitalInRange ==
    /\ widget_value \in min_value..max_value
    /\ initial_investment # UnboundInt =>
          /\ initial_investment \in 100..1000000
          /\ history = << >> => initial_investment = 10000
    /\ Computed =>
          /\ multiplier # FloatZero
          /\ FloatLess(FloatZero, hodl_val)
    /\ \A i \in 1..Len(history) :
          /\ Bound(history[i].hodl)
          /\ history[i].final_equity # << >>
    /\ Len(history) > 0 => history[1].capital = 10000

C8_Witness ==
    /\ Computed
    /\ initial_investment = max_value
    /\ Len(history) = 2
    /\ history[2].capital = min_value

IsPrefix(a, b) == Len(a) <= Len(b) /\ a = SubSeq(b, 1, Len(a))

PicturesIn(tab) ==
    Cardinality({i \in 1..Len(page) :
        page[i].place = tab /\ page[i].kind \in {"image", "error"}})

\* C9: every run renders the same seven panels in the same order and tabs
\* (2, 2, 3) with the same file names, titles and explanations as the first
\* run of the session, whatever the initial capital; apart from pictures,
\* only caption texts and metric values differ between two runs' pages.
C9_PanelsIndependentOfInput ==
    /\ first_layout # << >> =>
          /\ IsPrefix(Layout(page), first_layout)
          /\ RunOver => Layout(page) = first_layout
    /\ \A k \in 1..Len(fetch) : PanelRendered(k)
    /\ RunOver =>
          /\ PicturesIn("tab1") = 2
          /\ PicturesIn("tab2") = 2
          /\ PicturesIn("tab3") = 3
          /\ [k \in 1..Len(Panels) |-> Panels[k].filename] =
                <<"portfolio_value_training_animated.gif",
                  "portfolio_value_test_animated.gif",
                  "portfolio_value_training.png", "portfolio_value_test.png",
                  "factor_weights_en.png", "position_changes.png",
                  "cumulative_trades.png">>

C9_Witness ==
    /\ ip = 0
    /\ Len(history) = 3
    /\ history[1].capital # history[2].capital
    /\ history[3].capital = min_value

\* k1 * a <= k2 * b for positive floats a, b and small naturals k1, k2,
\* computed exactly.
ScaledLeq(k1, a, k2, b) ==
    LET e == IF a.exp < b.exp THEN a.exp ELSE b.exp
        x == ShiftLeft(MulSmall(a.man, k1), a.exp - e)
        y == ShiftLeft(MulSmall(b.man, k2), b.exp - e)
    IN  ~LimbsLess(y, x)

DigitOf(ch) ==
    CASE ch = "0" -> 0 [] ch = "1" -> 1 [] ch = "2" -> 2 [] ch = "3" -> 3
      [] ch = "4" -> 4 [] ch = "5" -> 5 [] ch = "6" -> 6 [] ch = "7" -> 7
      [] ch = "8" -> 8 [] ch = "9" -> 9 [] OTHER -> 10

\* The digits of str from position i on: their value and where they end.
RECURSIVE ReadNat(_, _, _)
ReadNat(str, i, acc) ==
    IF i <= Len(str) /\ DigitOf(SubSeq(str, i, i)) < 10
    THEN ReadNat(str, i + 1, 10 * acc + DigitOf(SubSeq(str, i, i)))
    ELSE [val |-> acc, next |-> i]

\* A displayed negative percentage, "-31.9%" or "-60% vs HODL": its
\* magnitude in units of 1/scale percent.
ReadPercent(str) ==
    LET whole == ReadNat(str, 2, 0)
    IN  IF SubSeq(str, whole.next, whole.next) = "."
        THEN [mag |-> 10 * whole.val + ReadNat(str, whole.next + 1, 0).val,
              scale |-> 10]
        ELSE [mag |-> whole.val, scale |-> 1]

\* 100 * (x - h) / h, rounded to the decimals of the displayed figure, is
\* that figure: |100 * scale * (h - x) / h - mag| <= 1/2.
GapRoundsTo(x, h, shown) ==
    LET pc == ReadPercent(shown)
        k  == 200 * pc.scale
    IN  /\ StartsWith(shown, "-")
        /\ ScaledLeq(k - 2 * pc.mag - 1, h, k, x)
        /\ ScaledLeq(k, x, k - 2 * pc.mag + 1, h)

KpiNote(place) ==
    LET i == CHOOSE j \in 1..Len(page) :
                 page[j].kind = "metric" /\ page[j].place = place
    IN  page[i].note

\* C10: for every valid initial capital the relative gap of the scaled DCA
\* and Quant equities to the scaled HODL equity rounds to the percentages
\* shown: "-31.9%" and "-60.5%" in the table at one decimal, and the Quant
\* KPI's "-60% vs HODL" at zero decimals.
C10_PercentagesConsistent ==
    table_data # UnboundTable =>
        /\ GapRoundsTo(dca_val, hodl_val, table_data.total_return[2])
        /\ GapRoundsTo(quant_val, hodl_val, table_data.total_return[3])
        /\ GapRoundsTo(quant_val, hodl_val, KpiNote("kpi3"))

\* C10, the part the code satisfies: the table's two percentages are the
\* gaps rounded to one decimal, for every input.
C10_TableConsistent ==
    table_data # UnboundTable =>
        /\ GapRoundsTo(dca_val, hodl_val, table_data.total_return[2])
        /\ GapRoundsTo(quant_val, hodl_val, table_data.total_return[3])
        /\ ~GapRoundsTo(quant_val, hodl_val, KpiNote("kpi3"))
        /\ GapRoundsTo(quant_val, hodl_val, "-61%")

=============================================================================
